---- MODULE Spec2Model ----
(***************************************************************************)
(* The ISDF notebook (src/openfermion/resource_estimates/pbc/notebooks/    *)
(* isdf.ipynb) as a state machine.  The state is the Python kernel's       *)
(* global namespace (which names are bound, and to what), the state of     *)
(* the global numpy random generator, and the position of the cell that    *)
(* is running.  The user may execute the code cells in any order, one at   *)
(* a time; a cell runs until it ends or an exception stops it.             *)
(*                                                                         *)
(* Energies and integral values are integers in units of 1e-4 Ha, and the  *)
(* energies of a configuration are counted from its SCF energy, so that    *)
(* mf.e_tot is 0.  The routines of pyscf and of                            *)
(* openfermion.resource_estimates.pbc are not in the notebook: a call      *)
(* returns any value of a small set; the calls of a sweep body may raise   *)
(* (solve_kmeans_kpisdf, and the routines that use its factors), the       *)
(* mean-field and reference calls outside the sweep bodies return.         *)
(* The user runs at most MaxCells cells in one session of the kernel.      *)
(* A value stored by the notebook is kept together with the arguments of   *)
(* the calls it was computed from (mf, ref, cthc, src fields).  Names a    *)
(* cell binds and reads back only itself (num_thc, cthc, kthc_eri_helper,  *)
(* eri_thc, emp2_approx, hcore, thc_lambda) are local to its action.       *)
(***************************************************************************)
EXTENDS Integers, Sequences, FiniteSets, TLC

\* ---------------------------------------------------------------- bounds
NumMeshes == 2
NumBases == 2
RankStop == 5
MaxEnergy == 1
RngStates == 3
MaxLambda == 1
MaxCells == 6

\* ------------------------------------------------------ program constants
RankStart == 2
RankStep == 2
SeedValue == 7
FirstMesh == 11
BasisMesh == 15
LambdaMesh == 15
ErrorThreshold == 1

kmesh == <<1, 1, 3>>
MeshList == <<11, 15, 19, 21, 28>>
BasisList == <<"gth-szv", "gth-dzvp", "gth-tzvp">>

\* The keys of results / basis_results in insertion order, cut to the bounds.
MeshKeys == SubSeq(MeshList, 1, NumMeshes)
BasisKeys == SubSeq(BasisList, 1, NumBases)

Energies == 0..MaxEnergy

\* ------------------------------------------------------------ pure helpers
Abs(x) == IF x < 0 THEN -x ELSE x

Range(s) == {s[k] : k \in 1..Len(s)}

IsPrefix(s, t) == Len(s) <= Len(t) /\ \A k \in 1..Len(s) : s[k] = t[k]

\* np.arange(start, stop, step) for a positive step.
Arange(start, stop, step) ==
    LET n == IF stop > start THEN (stop - start + step - 1) \div step ELSE 0
    IN  [k \in 1..n |-> start + (k - 1) * step]

\* cell.make_kpts(kmesh): one k-point per point of the kmesh.
MakeKpts(km) == [k \in 1..(km[1] * km[2] * km[3]) |-> k]

\* np.prod(cell.mesh) for cell.mesh = [mesh]*3.
ProdMesh(c) == c.mesh * c.mesh * c.mesh

\* mf.mo_coeff[0].shape[-1] : the number of spatial orbitals of the basis
\* (two carbon atoms per cell).
NumOrbs(basis) ==
    CASE basis = "gth-szv" -> 8
      [] basis = "gth-dzv" -> 16
      [] basis = "gth-dzvp" -> 26
      [] basis = "gth-tzvp" -> 34
      [] OTHER -> 0

\* Values of one element of an integral tensor: multiples of num_kpts, so
\* that the division by num_kpts of line 172 is exact.
EriVals == {Len(MakeKpts(kmesh)) * e : e \in Energies}

NoCfg == [basis |-> "none", mesh |-> 0]
NoMf == [basis |-> "none", mesh |-> 0, e_tot |-> 0]
NoThc == [mf |-> NoCfg, num_thc |-> 0, cell |-> 0, cthc |-> 0]
NoEri == [src |-> "none", mf |-> NoCfg]
NoRef == [mf |-> NoCfg, val |-> 0]
NoRun == [cell |-> 0, mf |-> NoCfg, orbs |-> 0, rngs |-> <<>>]

\* The configuration (basis, mesh) a mean-field object was built for.
Cfg(m) == [basis |-> m.basis, mesh |-> m.mesh]

\* gto.Cell() with the basis and the mesh set, after cell.build().
Cell(basis, mesh) == [basis |-> basis, mesh |-> mesh]

\* scf.KRHF(cell, kpts) after mf.kernel(): energies are counted from e_tot.
KRHF(c) == [basis |-> c.basis, mesh |-> c.mesh, e_tot |-> 0]

VARIABLES
    defined,           \* the names bound in the kernel's global namespace
    cell, kpts, num_kpts, mf,
    kpt_thc, num_spatial_orbs,
    eri_exact, emp2_exact, thc_ranks,
    delta_eri, delta_mp2, results, basis_results,
    stdout22,          \* the lines printed by the last running of cell 22
    rng,               \* state of numpy's global random generator
    pc,                \* the cell that runs or ran last, and its position
    execution_count,   \* how many cells the kernel has been given to run
    run, prevRun,      \* generator states seen by this and the previous sweep
    before             \* what the global names held when this sweep began

config == <<cell, kpts, num_kpts, mf>>
records == <<delta_eri, delta_mp2, results, basis_results>>
history == <<run, prevRun, before>>

vars == <<defined, cell, kpts, num_kpts, mf, kpt_thc, num_spatial_orbs,
          eri_exact, emp2_exact, thc_ranks, delta_eri, delta_mp2, results,
          basis_results, stdout22, rng, pc, execution_count, run, prevRun,
          before>>

\* The names of the configuration and of the values derived from it, and
\* what they hold.
GlobalNames == {"cell", "kpts", "num_kpts", "mf", "num_spatial_orbs",
                "thc_ranks", "emp2_exact", "eri_exact"}
Globals == [names |-> defined \cap GlobalNames,
            cell |-> cell, kpts |-> kpts, num_kpts |-> num_kpts, mf |-> mf,
            num_spatial_orbs |-> num_spatial_orbs, thc_ranks |-> thc_ranks,
            emp2_exact |-> emp2_exact, eri_exact |-> eri_exact]

\* ------------------------------------------------------------------ kernel
Idle == pc.st # "run"

\* The kernel takes the next cell the user gives it.
Begin ==
    /\ Idle
    /\ execution_count < MaxCells
    /\ execution_count' = execution_count + 1

\* The running cell goes on.
Running(c) ==
    /\ pc.cell = c
    /\ pc.st = "run"
    /\ execution_count' = execution_count

\* Cell c at outer step o and inner step i, running or ended with st.
At(c, st, o, i) == [cell |-> c, st |-> st, o |-> o, i |-> i]

\* The kernel after cell c, which holds no loop, ended with outcome st.
Ended(c, st) == At(c, st, 0, 0)

\* Seed without effect, as in a cell that does not call np.random.seed: the
\* generator stays where it is.
SeedNoop(s) == rng

\* np.random.seed(s)
Seed(s) == s % RngStates

\* The generator after the draws of one KMeans point selection.
Advance(r) == (r + 1) % RngStates

\* A fresh kernel: nothing is bound; the generator is seeded from the system.
Init ==
    /\ defined = {}
    /\ cell = NoCfg /\ kpts = <<>> /\ num_kpts = 0 /\ mf = NoMf
    /\ kpt_thc = NoThc /\ num_spatial_orbs = 0
    /\ eri_exact = NoEri /\ emp2_exact = NoRef /\ thc_ranks = <<>>
    /\ delta_eri = <<>> /\ delta_mp2 = <<>>
    /\ results = [m \in {} |-> <<>>] /\ basis_results = [b \in {} |-> <<>>]
    /\ stdout22 = <<>>
    /\ rng \in 0..(RngStates - 1)
    /\ pc = Ended(0, "ok")
    /\ execution_count = 0
    /\ run = NoRun /\ prevRun = NoRun /\ before = Globals

\* BuildConfig with the k-point mesh taken from the grid, kmesh = [1, 1, mesh].
BuildConfigKmesh(basis, mesh) ==
    /\ cell' = Cell(basis, mesh)
    /\ kpts' = MakeKpts(<<1, 1, mesh>>)
    /\ num_kpts' = Len(MakeKpts(<<1, 1, mesh>>))
    /\ mf' = KRHF(Cell(basis, mesh))

\* BuildConfig with cell.mesh left at the grid of cell 2, [11] * 3.
BuildConfigFirstMesh(basis, mesh) ==
    /\ cell' = Cell(basis, FirstMesh)
    /\ kpts' = MakeKpts(kmesh)
    /\ num_kpts' = Len(MakeKpts(kmesh))
    /\ mf' = KRHF(Cell(basis, FirstMesh))

\* Lines 48-64, 269-285, 328-345, 401-417: the cell, the k-points and the
\* converged mean field of a basis and a mesh.
BuildConfig(basis, mesh) ==
    /\ cell' = Cell(basis, mesh)
    /\ kpts' = MakeKpts(kmesh)
    /\ num_kpts' = Len(MakeKpts(kmesh))
    /\ mf' = KRHF(Cell(basis, mesh))

ConfigNames == {"np", "cell", "kpts", "num_kpts", "mf"}

\* ------------------------------------------------------------ cell 2
\* Imports, the diamond cell with mesh 11^3, the k-points and the mean field.
Cell2 ==
    /\ Begin
    /\ BuildConfig("gth-szv", FirstMesh)
    /\ defined' = defined \cup ConfigNames
    /\ pc' = Ended(2, "ok")
    /\ UNCHANGED <<kpt_thc, num_spatial_orbs, eri_exact, emp2_exact, thc_ranks,
                   records, stdout22, rng, history>>

\* ------------------------------------------------------------ cell 4
\* kthc.solve_kmeans_kpisdf(m, n) called by cell c at rank parameter k: the
\* factors it returns, with the arguments of the call.
SolveKmeans(m, n, c, k) == [mf |-> Cfg(m), num_thc |-> n, cell |-> c, cthc |-> k]

\* FullGrid with the product taken over two of the three grid axes.
FullGridPlane(c) == c.mesh * c.mesh

\* Line 86: the whole real-space grid as the number of interpolating points.
FullGrid(c) == ProdMesh(c)

\* The ISDF factors on the whole grid.
Cell4 ==
    /\ Begin
    /\ IF {"np", "cell", "mf"} \subseteq defined
       THEN \E ok \in BOOLEAN :
              IF ok
              THEN /\ kpt_thc' = SolveKmeans(mf, FullGrid(cell), 4, 0)
                   /\ rng' = Advance(rng)
                   /\ defined' = defined \cup {"kthc", "kpt_thc"}
                   /\ pc' = Ended(4, "ok")
              ELSE /\ kpt_thc' = kpt_thc
                   /\ rng' \in {rng, Advance(rng)}
                   /\ defined' = defined \cup {"kthc"}
                   /\ pc' = Ended(4, "ExternalError")
       ELSE \* np.prod(cell.mesh) raises NameError after the import
            /\ defined' = defined \cup {"kthc"}
            /\ pc' = Ended(4, "NameError")
            /\ UNCHANGED <<kpt_thc, rng>>
    /\ UNCHANGED <<config, num_spatial_orbs, eri_exact, emp2_exact, thc_ranks,
                   records, stdout22, history>>

\* ------------------------------------------------------------ cell 6
\* kthc.KPTHCHelperDoubleTranslation(chi=kpt_thc.chi, zeta=kpt_thc.zeta, kmf=mf)
KPTHCHelper(t, m) == [thc |-> t, kmf |-> Cfg(m)]

\* Whether the factors of helper h interpolate on every point of the grid of
\* the mean field h was built with.
ExactLimit(h) == h.thc.mf = h.kmf /\ h.thc.num_thc = ProdMesh(h.kmf)

\* kthc_eri_helper.get_eri(eri_kindices): the values the library may return
\* when the exact tensor is `exact`.
GetEri(h, exact) == IF ExactLimit(h) THEN {exact} ELSE EriVals

\* np.allclose(a, b): the unit, 1e-4, is far above the tolerance.
AllClose(a, b) == a = b

\* One integral block, exact and from the factors, and the assertion.
Cell6 ==
    /\ Begin
    /\ IF {"cell", "kpts", "mf"} \subseteq defined
       THEN /\ num_spatial_orbs' = NumOrbs(mf.basis)
            /\ eri_exact' = [src |-> "ao2mo", mf |-> Cfg(mf)]
            /\ defined' = defined \cup
                            {"num_spatial_orbs", "eri_kindices", "eri_exact"}
            /\ IF {"kthc", "kpt_thc"} \subseteq defined
               THEN \E v \in EriVals :
                      \E t \in GetEri(KPTHCHelper(kpt_thc, mf), v) :
                         pc' = Ended(6, IF AllClose(t, v) THEN "ok"
                                                         ELSE "AssertionError")
               ELSE pc' = Ended(6, "NameError")
       ELSE \* build_momentum_transfer_mapping(cell, kpts) raises NameError
            /\ pc' = Ended(6, "NameError")
            /\ UNCHANGED <<defined, num_spatial_orbs, eri_exact>>
    /\ UNCHANGED <<config, kpt_thc, emp2_exact, thc_ranks, records, stdout22,
                   rng, history>>

\* ------------------------------------------------------------ cell 10
\* Imports matplotlib and plots delta_eri against thc_ranks.
Cell10 ==
    /\ Begin
    /\ defined' = defined \cup {"plt"}
    /\ pc' = Ended(10, IF ~ ({"thc_ranks", "delta_eri"} \subseteq defined)
                       THEN "NameError"
                       ELSE IF Len(thc_ranks) # Len(delta_eri) THEN "ValueError"
                       ELSE "ok")
    /\ UNCHANGED <<config, kpt_thc, num_spatial_orbs, eri_exact, emp2_exact,
                   thc_ranks, records, stdout22, rng, history>>

\* ------------------------------------------------------------ cell 8
\* Lines 159-161, 289, 350: the reference MP2 energy of mean field m, whose
\* correlation energy the reference routine returned as corr.
RefEnergy(m, corr) == [mf |-> Cfg(m), val |-> corr + m.e_tot]

\* Lines 166, 294, 355, 431: the number of interpolating points.
NumThc(k, n) == k * n

\* DeltaEri without np.abs: the signed difference.
DeltaEriSigned(thc, exact, nk) == (thc - exact) \div nk

\* Line 172: np.max(np.abs(eri_thc - eri_exact)) / num_kpts.
DeltaEri(thc, exact, nk) == Abs(thc - exact) \div nk

\* compute_emp2_approx(mf, kthc_eri_helper): the total approximate MP2 energy,
\* when the routine found the correlation energy corr.
Emp2Approx(m, corr) == m.e_tot + corr

\* Lines 174, 299, 360: the stored deviation.
DeltaMp2(exact, approx) == exact - approx

\* ListAppend as an assignment, list = [x]: the entries before x are lost.
ListAssign(list, x) == <<x>>

\* list.append(x)
ListAppend(list, x) == Append(list, x)

\* One entry of delta_mp2, results[mesh] or basis_results[basis]: the deviation,
\* the rank parameter, the configuration of the reference and of the mean field.
Mp2Entry(k, ref, m, corr) ==
    [cthc |-> k, ref |-> ref.mf, mf |-> Cfg(m),
     val |-> DeltaMp2(ref.val, Emp2Approx(m, corr))]

\* One entry of delta_eri.
EriEntry(k, m, thc, exact, nk) ==
    [cthc |-> k, mf |-> Cfg(m), val |-> DeltaEri(thc, exact, nk)]

\* How far one step of a sweep body gets.  1: NameError on num_spatial_orbs;
\* 2: NameError on kthc; 3: solve_kmeans_kpisdf raises; 4: NameError on
\* eri_kindices; 6: compute_emp2_approx (in cell 22, compute_lambda too)
\* raises or is not bound; 7: the step completes.
StageError(stage) ==
    CASE stage \in {1, 2, 4} -> "NameError"
      [] stage = 3 -> "ExternalError"
      [] stage = 6 -> IF "compute_emp2_approx" \in defined THEN "ExternalError"
                                                          ELSE "NameError"
      [] OTHER -> "ok"

\* The generator after a step that got to `stage`: a call that raises may or
\* may not have drawn.
RngAfter(stage) ==
    IF stage >= 4 THEN {Advance(rng)}
    ELSE IF stage = 3 THEN {rng, Advance(rng)}
    ELSE {rng}

\* The generator states seen by the calls of the running sweep.
RunAfter(stage) ==
    IF stage >= 3 THEN [run EXCEPT !.rngs = Append(@, rng)] ELSE run

\* A sweep of cell c begins; m and n are the mean field and the orbital count
\* it takes from the cells run before it (NoCfg, 0: it makes its own).  The
\* sweep before it is kept when it was a sweep of the same cell.
RunStart(c, m, n) ==
    /\ prevRun' = IF run.cell = c THEN run ELSE NoRun
    /\ before' = Globals
    /\ run' = [cell |-> c, mf |-> m, orbs |-> n, rngs |-> <<>>]

\* PcAfter with `for cthc in thc_ranks[:-1]`: the loop leaves out the last
\* rank parameter.
PcAfterShort(c, stage, outer) ==
    IF stage < 7 THEN At(c, StageError(stage), pc.o, pc.i)
    ELSE IF pc.i < Len(thc_ranks) - 1 THEN At(c, "run", pc.o, pc.i + 1)
    ELSE IF outer = 0 THEN At(c, "ok", pc.o, pc.i)
    ELSE IF "plt" \notin defined THEN At(c, "NameError", pc.o, pc.i)
    ELSE IF pc.o < outer THEN At(c, "run", pc.o, 0)
    ELSE At(c, "ok", pc.o, pc.i)

\* PcAfter with the loop body in try/except/continue: a step that raises is
\* skipped and the loop goes on.
PcAfterContinue(c, stage, outer) ==
    IF pc.i < Len(thc_ranks) THEN At(c, "run", pc.o, pc.i + 1)
    ELSE IF outer = 0 THEN At(c, "ok", pc.o, pc.i)
    ELSE IF "plt" \notin defined THEN At(c, "NameError", pc.o, pc.i)
    ELSE IF pc.o < outer THEN At(c, "run", pc.o, 0)
    ELSE At(c, "ok", pc.o, pc.i)

\* The position after a step of sweep cell c at (o, i) that got to `stage`,
\* in a sweep of `outer` outer steps (0: the cell has no outer loop).  The
\* outer loops end each step with plt.plot.
PcAfter(c, stage, outer) ==
    IF stage < 7 THEN At(c, StageError(stage), pc.o, pc.i)
    ELSE IF pc.i < Len(thc_ranks) THEN At(c, "run", pc.o, pc.i + 1)
    ELSE IF outer = 0 THEN At(c, "ok", pc.o, pc.i)
    ELSE IF "plt" \notin defined THEN At(c, "NameError", pc.o, pc.i)
    ELSE IF pc.o < outer THEN At(c, "run", pc.o, 0)
    ELSE At(c, "ok", pc.o, pc.i)

\* The names a step that got to `stage` binds.
StepNames(stage) == IF stage >= 4 THEN {"kpt_thc"} ELSE {}

\* Lines 157-164: the references, the empty records and the rank parameters.
Cell8Start ==
    /\ Begin
    /\ IF "mf" \in defined
       THEN \E corr \in Energies :
              /\ eri_exact' = [src |-> "cc_inst.ao2mo", mf |-> Cfg(mf)]
              /\ emp2_exact' = RefEnergy(mf, corr)
              /\ delta_eri' = <<>>
              /\ delta_mp2' = <<>>
              /\ thc_ranks' = Arange(RankStart, RankStop, RankStep)
              /\ defined' = defined \cup
                   {"compute_emp2_approx", "eri_exact", "emp2_exact", "delta_eri",
                    "delta_mp2", "thc_ranks"}
              /\ pc' = At(8, "run", 0, 1)
              /\ RunStart(8, Cfg(mf), num_spatial_orbs)
       ELSE \* build_cc_inst(mf) raises NameError after the import
            /\ defined' = defined \cup {"compute_emp2_approx"}
            /\ pc' = At(8, "NameError", 0, 0)
            /\ UNCHANGED <<eri_exact, emp2_exact, delta_eri, delta_mp2, thc_ranks,
                           history>>
    /\ UNCHANGED <<config, kpt_thc, num_spatial_orbs, results, basis_results,
                   stdout22, rng>>

Stages8 ==
    IF "num_spatial_orbs" \notin defined THEN {1}
    ELSE IF "kthc" \notin defined THEN {2}
    ELSE IF "eri_kindices" \notin defined THEN {3, 4}
    ELSE {3, 6, 7}

\* Lines 165-174: one step of the rank sweep.
Cell8Step ==
    /\ Running(8)
    /\ \E stage \in Stages8, x \in EriVals, corr \in Energies :
         LET k == thc_ranks[pc.i]
             t == SolveKmeans(mf, NumThc(k, num_spatial_orbs), 8, k)
         IN  \E th \in GetEri(KPTHCHelper(t, mf), x) :
               /\ kpt_thc' = IF stage >= 4 THEN t ELSE kpt_thc
               /\ eri_exact' = IF stage >= 6
                               THEN [src |-> "get_eri_exact", mf |-> Cfg(mf)]
                               ELSE eri_exact
               /\ delta_eri' = IF stage >= 6
                               THEN ListAppend(delta_eri,
                                               EriEntry(k, mf, th, x, num_kpts))
                               ELSE delta_eri
               /\ delta_mp2' = IF stage = 7
                               THEN ListAppend(delta_mp2,
                                               Mp2Entry(k, emp2_exact, mf, corr))
                               ELSE delta_mp2
               /\ defined' = defined \cup StepNames(stage)
               /\ rng' \in RngAfter(stage)
               /\ run' = RunAfter(stage)
               /\ pc' = PcAfter(8, stage, 0)
    /\ UNCHANGED <<config, num_spatial_orbs, emp2_exact, thc_ranks, results,
                   basis_results, stdout22, prevRun, before>>

\* ------------------------------------------------------------ cell 17
\* Line 266: results with an empty list under every mesh.
EmptyResults(keys) == [key \in Range(keys) |-> <<>>]

\* Lines 269-291: the configuration, the reference and the rank parameters of
\* outer step o of the mesh sweep.
MeshOuter(o) ==
    \E corr \in Energies :
       /\ BuildConfig("gth-szv", MeshKeys[o])
       /\ emp2_exact' = RefEnergy(mf', corr)
       /\ thc_ranks' = Arange(RankStart, RankStop, RankStep)
       /\ defined' = defined \cup ConfigNames
                       \cup {"results", "emp2_exact", "thc_ranks"}
       /\ pc' = At(17, "run", o, 1)

Cell17Start ==
    /\ Begin
    /\ results' = EmptyResults(MeshKeys)
    /\ IF "np" \in defined
       THEN /\ MeshOuter(1)
            /\ RunStart(17, NoCfg, num_spatial_orbs)
       ELSE \* bulk("C", "diamond", a=3.5) raises NameError
            /\ defined' = defined \cup {"results"}
            /\ pc' = At(17, "NameError", 1, 0)
            /\ UNCHANGED <<config, emp2_exact, thc_ranks, history>>
    /\ UNCHANGED <<kpt_thc, num_spatial_orbs, eri_exact, delta_eri, delta_mp2,
                   basis_results, stdout22, rng>>

\* The next mesh of the sweep.
Cell17Outer ==
    /\ Running(17)
    /\ pc.i = 0
    /\ MeshOuter(pc.o + 1)
    /\ UNCHANGED <<kpt_thc, num_spatial_orbs, eri_exact, records, stdout22, rng,
                   history>>

Stages17 ==
    IF "num_spatial_orbs" \notin defined THEN {1}
    ELSE IF "kthc" \notin defined THEN {2}
    ELSE IF "compute_emp2_approx" \notin defined THEN {3, 6}
    ELSE {3, 6, 7}

\* Lines 292-301 but for the names the step leaves as they are.
Step17 ==
    /\ Running(17)
    /\ pc.i >= 1
    /\ \E stage \in Stages17, corr \in Energies :
         LET k == thc_ranks[pc.i]
             t == SolveKmeans(mf, NumThc(k, num_spatial_orbs), 17, k)
         IN  /\ kpt_thc' = IF stage >= 4 THEN t ELSE kpt_thc
             /\ results' = IF stage = 7
                           THEN [results EXCEPT ![MeshKeys[pc.o]] =
                                   ListAppend(@, Mp2Entry(k, emp2_exact, mf, corr))]
                           ELSE results
             /\ defined' = defined \cup StepNames(stage)
             /\ rng' \in RngAfter(stage)
             /\ run' = RunAfter(stage)
             /\ pc' = PcAfter(17, stage, NumMeshes)
    /\ UNCHANGED <<delta_eri, delta_mp2, basis_results, stdout22, prevRun, before>>

\* Cell17Step with the reference energy of line 289 computed inside the
\* loop over thc_ranks.
Cell17StepRecomputes ==
    /\ Step17
    /\ \E corr \in Energies : emp2_exact' = RefEnergy(mf, corr)
    /\ UNCHANGED <<config, num_spatial_orbs, eri_exact, thc_ranks>>

\* Lines 292-301: one step of the rank sweep of a mesh, and the plot after
\* the last one.
Cell17Step ==
    /\ Step17
    /\ UNCHANGED <<config, num_spatial_orbs, eri_exact, emp2_exact, thc_ranks>>

\* ------------------------------------------------------------ cell 19
\* Lines 328-352: the configuration, the orbital count, the reference and the
\* rank parameters of outer step o of the basis sweep.
BasisOuter(o) ==
    \E corr \in Energies :
       /\ BuildConfig(BasisKeys[o], BasisMesh)
       /\ num_spatial_orbs' = NumOrbs(BasisKeys[o])
       /\ emp2_exact' = RefEnergy(mf', corr)
       /\ thc_ranks' = Arange(RankStart, RankStop, RankStep)
       /\ defined' = defined \cup ConfigNames
                       \cup {"basis_results", "num_spatial_orbs", "emp2_exact",
                             "thc_ranks"}
       /\ pc' = At(19, "run", o, 1)

Cell19Start ==
    /\ Begin
    /\ basis_results' = EmptyResults(BasisKeys)
    /\ IF "np" \in defined
       THEN /\ BasisOuter(1)
            /\ RunStart(19, NoCfg, 0)
       ELSE \* bulk("C", "diamond", a=3.5) raises NameError
            /\ defined' = defined \cup {"basis_results"}
            /\ pc' = At(19, "NameError", 1, 0)
            /\ UNCHANGED <<config, num_spatial_orbs, emp2_exact, thc_ranks,
                           history>>
    /\ UNCHANGED <<kpt_thc, eri_exact, delta_eri, delta_mp2, results, stdout22,
                   rng>>

\* The next basis of the sweep.
Cell19Outer ==
    /\ Running(19)
    /\ pc.i = 0
    /\ BasisOuter(pc.o + 1)
    /\ UNCHANGED <<kpt_thc, eri_exact, records, stdout22, rng, history>>

Stages19 ==
    IF "kthc" \notin defined THEN {2}
    ELSE IF "compute_emp2_approx" \notin defined THEN {3, 6}
    ELSE {3, 6, 7}

\* Lines 353-362: one step of the rank sweep of a basis, and the plot after
\* the last one.
Cell19Step ==
    /\ Running(19)
    /\ pc.i >= 1
    /\ \E stage \in Stages19, corr \in Energies :
         LET k == thc_ranks[pc.i]
             t == SolveKmeans(mf, NumThc(k, num_spatial_orbs), 19, k)
         IN  /\ kpt_thc' = IF stage >= 4 THEN t ELSE kpt_thc
             /\ basis_results' = IF stage = 7
                           THEN [basis_results EXCEPT ![BasisKeys[pc.o]] =
                                   ListAppend(@, Mp2Entry(k, emp2_exact, mf, corr))]
                           ELSE basis_results
             /\ defined' = defined \cup StepNames(stage)
             /\ rng' \in RngAfter(stage)
             /\ run' = RunAfter(stage)
             /\ pc' = PcAfter(19, stage, NumBases)
    /\ UNCHANGED <<config, num_spatial_orbs, eri_exact, emp2_exact, thc_ranks,
                   delta_eri, delta_mp2, results, stdout22, prevRun, before>>

\* ------------------------------------------------------------ cell 22
Lambdas == 1..MaxLambda

\* Lines 426-427: the reference MP2 correlation energy of mean field m.
RefCorr(m, corr) == [mf |-> Cfg(m), val |-> corr]

\* Line 436: compute_emp2_approx(mf, kthc_eri_helper) - mf.e_tot.
ApproxCorr(m, corr) == Emp2Approx(m, corr) - m.e_tot

\* Line 437: abs(emp2_approx - emp2_exact).
Emp2Error(approx, exact) == Abs(approx - exact)

\* Line 429 prints the reference; line 438 prints the report of a rank
\* parameter; line 440 prints the flagged report.
Line(kind, k, err, lam) == [kind |-> kind, cthc |-> k, err |-> err, lam |-> lam]

\* Report with the test emp2_error <= 1e-4: an error of exactly the
\* threshold is flagged too.
ReportInclusive(k, err, lam) ==
    IF err <= ErrorThreshold
    THEN <<Line("report", k, err, lam), Line("flagged", k, err, lam)>>
    ELSE <<Line("report", k, err, lam)>>

Report(k, err, lam) ==
    IF err < ErrorThreshold
    THEN <<Line("report", k, err, lam), Line("flagged", k, err, lam)>>
    ELSE <<Line("report", k, err, lam)>>

\* Lines 401-429: the gth-dzv configuration, the reference, the seed.
Cell22Start ==
    /\ Begin
    /\ IF "np" \in defined
       THEN \E corr \in Energies :
              /\ BuildConfig("gth-dzv", LambdaMesh)
              /\ num_spatial_orbs' = NumOrbs("gth-dzv")
              /\ thc_ranks' = Arange(RankStart, RankStop, RankStep)
              /\ IF "compute_emp2_approx" \in defined
                 THEN /\ eri_exact' = [src |-> "cc_inst.ao2mo", mf |-> Cfg(mf')]
                      /\ emp2_exact' = RefCorr(mf', corr)
                      /\ rng' = Seed(SeedValue)
                      /\ stdout22' = <<Line("reference", 0, corr, 0)>>
                      /\ defined' = defined \cup ConfigNames \cup
                           {"num_spatial_orbs", "thc_ranks", "eri_exact",
                            "emp2_exact"}
                      /\ pc' = At(22, "run", 0, 1)
                      /\ RunStart(22, NoCfg, 0)
                 ELSE \* build_cc_inst(mf) raises NameError
                      /\ defined' = defined \cup ConfigNames \cup
                           {"num_spatial_orbs", "thc_ranks"}
                      /\ stdout22' = <<>>
                      /\ pc' = At(22, "NameError", 0, 0)
                      /\ UNCHANGED <<eri_exact, emp2_exact, rng, history>>
       ELSE \* bulk("C", "diamond", a=3.5) raises NameError
            /\ stdout22' = <<>>
            /\ pc' = At(22, "NameError", 0, 0)
            /\ UNCHANGED <<defined, config, num_spatial_orbs, thc_ranks,
                           eri_exact, emp2_exact, rng, history>>
    /\ UNCHANGED <<kpt_thc, records>>

Stages22 ==
    IF "kthc" \notin defined THEN {2} ELSE {3, 6, 7}

\* Lines 430-440: one step of the lambda sweep.
Cell22Step ==
    /\ Running(22)
    /\ \E stage \in Stages22, corr \in Energies, lam \in Lambdas :
         LET k == thc_ranks[pc.i]
             t == SolveKmeans(mf, NumThc(k, num_spatial_orbs), 22, k)
             err == Emp2Error(ApproxCorr(mf, corr), emp2_exact.val)
         IN  /\ kpt_thc' = IF stage >= 4 THEN t ELSE kpt_thc
             /\ stdout22' = IF stage = 7 THEN stdout22 \o Report(k, err, lam)
                                         ELSE stdout22
             /\ defined' = defined \cup StepNames(stage)
             /\ rng' \in RngAfter(stage)
             /\ run' = RunAfter(stage)
             /\ pc' = PcAfter(22, stage, 0)
    /\ UNCHANGED <<config, num_spatial_orbs, eri_exact, emp2_exact, thc_ranks,
                   records, prevRun, before>>

Next ==
    \/ Cell2
    \/ Cell4
    \/ Cell6
    \/ Cell10
    \/ Cell8Start
    \/ Cell8Step
    \/ Cell17Start
    \/ Cell17Outer
    \/ Cell17Step
    \/ Cell19Start
    \/ Cell19Outer
    \/ Cell19Step
    \/ Cell22Start
    \/ Cell22Step

Spec == Init /\ [][Next]_vars

-----------------------------------------------------------------------------
\* Properties of the sweeps.

SweepCells == {8, 17, 19, 22}
Failures == {"NameError", "ExternalError"}

\* The rank parameters of the entries of a record, in order.
RanksOf(list) == [k \in 1..Len(list) |-> list[k].cthc]

\* A step of an inner loop is about to run.
InnerStep == pc.st = "run" /\ pc.i >= 1

\* The inner loops of the outer steps up to pc.o have finished.
InnerDone(c) == pc.cell = c /\ (pc.st = "ok" \/ (pc.st = "run" /\ pc.i = 0))

\* C1: when the loop over thc_ranks of a sweep has finished, the record of
\* the sweep (delta_eri and delta_mp2 of cell 8, results[mesh] of cell 17,
\* basis_results[basis] of cell 19) holds one entry per rank parameter, the
\* i-th entry computed for the i-th rank parameter.
C1_OneEntryPerRank ==
    /\ (pc.cell = 8 /\ pc.st = "ok") =>
           /\ RanksOf(delta_eri) = thc_ranks
           /\ RanksOf(delta_mp2) = thc_ranks
    /\ InnerDone(17) =>
           \A o \in 1..pc.o : RanksOf(results[MeshKeys[o]]) = thc_ranks
    /\ InnerDone(19) =>
           \A o \in 1..pc.o : RanksOf(basis_results[BasisKeys[o]]) = thc_ranks

\* The mesh sweep has finished, with more than one rank parameter a mesh.
C1_Witness ==
    /\ pc.cell = 17 /\ pc.st = "ok" /\ pc.o = NumMeshes
    /\ Len(thc_ranks) >= 2
    /\ \A o \in 1..NumMeshes : Len(results[MeshKeys[o]]) = Len(thc_ranks)

\* C2 as stated: every deviation stored in a record is non-negative.
C2_AllNonNegative ==
    /\ \A k \in 1..Len(delta_eri) : delta_eri[k].val >= 0
    /\ \A k \in 1..Len(delta_mp2) : delta_mp2[k].val >= 0
    /\ \A m \in DOMAIN results :
           \A k \in 1..Len(results[m]) : results[m][k].val >= 0
    /\ \A b \in DOMAIN basis_results :
           \A k \in 1..Len(basis_results[b]) : basis_results[b][k].val >= 0

\* C2: every integral deviation stored in delta_eri is non-negative (the
\* energy deviations of delta_mp2, results and basis_results are stored
\* signed, emp2_exact - emp2_approx, and are made non-negative only when
\* they are plotted).
C2_EriNonNegative == \A k \in 1..Len(delta_eri) : delta_eri[k].val >= 0

\* delta_eri holds a deviation that is not zero.
C2_Witness == \E k \in 1..Len(delta_eri) : delta_eri[k].val > 0

\* C3 as stated: a step that raises does not keep the steps of the later
\* rank parameters from running, so a sweep is never left stopped by a
\* library error with rank parameters still to do.
C3_LaterStepsRun ==
    (pc.cell \in SweepCells /\ pc.st = "ExternalError") => pc.i >= Len(thc_ranks)

\* The energy deviations and report lines, to which a completed step adds.
completed == <<delta_mp2, results, basis_results, stdout22>>

\* C3: a step of a sweep that raises ends the sweep at that rank parameter:
\* nothing is recorded for it and the cell stops with the error, so no step
\* runs for the rank parameters after it.
C3_FailureEndsSweep ==
    [][(InnerStep /\ completed' = completed) =>
          /\ pc'.st \in Failures
          /\ pc'.cell = pc.cell /\ pc'.o = pc.o /\ pc'.i = pc.i]_vars

\* The rank sweep stopped by a library error at its first rank parameter,
\* with rank parameters left.
C3_Witness ==
    /\ pc.cell = 8 /\ pc.st = "ExternalError"
    /\ pc.i = 1 /\ pc.i < Len(thc_ranks)
    /\ delta_mp2 = <<>>

\* The sweep that runs or ran last and the sweep before it ran the same cell
\* on the same mean field and orbital count.
SameSweepTwice ==
    /\ run.cell \in SweepCells /\ prevRun.cell = run.cell
    /\ prevRun.mf = run.mf /\ prevRun.orbs = run.orbs

\* The calls of solve_kmeans_kpisdf of the two sweeps found the generator in
\* the same state, step for step.
SameRngs ==
    \A k \in 1..Len(run.rngs) :
        k <= Len(prevRun.rngs) => run.rngs[k] = prevRun.rngs[k]

\* C4 as stated: two consecutive runs of the same sweep on identical inputs
\* find the random-number generator in the same state at corresponding
\* steps.
C4_SameGeneratorStates == SameSweepTwice => SameRngs

\* C4: two consecutive runs of the lambda sweep of cell 22, which calls
\* np.random.seed(7) before its loop, find the random-number generator in
\* the same state at corresponding steps.
C4_SeededSweepRepeats == (run.cell = 22 /\ prevRun.cell = 22) => SameRngs

\* Cell 22 ran twice in a row through all its rank parameters.
C4_Witness ==
    /\ run.cell = 22 /\ prevRun.cell = 22
    /\ Len(thc_ranks) >= 2
    /\ Len(run.rngs) = Len(thc_ranks) /\ Len(prevRun.rngs) = Len(thc_ranks)

\* C5 as stated: no step of an inner sweep reassigns the reference values,
\* the energy emp2_exact and the integrals eri_exact.
C5_ReferenceFixed ==
    [][InnerStep => (emp2_exact' = emp2_exact /\ eri_exact' = eri_exact)]_vars

\* C5: the reference energy emp2_exact is the one computed for the mean
\* field of the configuration before the inner sweep, and no step of the
\* inner sweep reassigns it.
C5_ReferenceEnergyFixed ==
    [][InnerStep => (emp2_exact.mf = Cfg(mf) /\ emp2_exact' = emp2_exact)]_vars

\* The mesh sweep at the second rank parameter of its second mesh.
C5_Witness ==
    /\ pc.cell = 17 /\ pc.st = "run" /\ pc.o = 2 /\ pc.i = 2
    /\ Len(results[MeshKeys[2]]) = 1
    /\ emp2_exact.mf = Cell("gth-szv", MeshKeys[2])

\* The position moved on: the step completed.
Advanced == pc'.st \in {"run", "ok"}

\* The record `new` is `old` with n entries added at its end.
Grown(old, new, n) == IsPrefix(old, new) /\ Len(new) = Len(old) + n

\* C6: while a sweep runs its record is append-only: every step leaves the
\* record it found as a prefix of the record it leaves, a completed step
\* adds exactly one entry, and no step adds more than one.
C6_AppendOnly ==
    [][pc.st = "run" =>
          /\ \E n \in {0, 1} : Grown(delta_eri, delta_eri', n)
          /\ \E n \in {0, 1} : Grown(delta_mp2, delta_mp2', n)
          /\ DOMAIN results' = DOMAIN results
          /\ \A m \in DOMAIN results :
                \E n \in {0, 1} : Grown(results[m], results'[m], n)
          /\ DOMAIN basis_results' = DOMAIN basis_results
          /\ \A b \in DOMAIN basis_results :
                \E n \in {0, 1} : Grown(basis_results[b], basis_results'[b], n)
          /\ (InnerStep /\ Advanced /\ pc.cell = 8) =>
                (Grown(delta_eri, delta_eri', 1) /\ Grown(delta_mp2, delta_mp2', 1))
          /\ (InnerStep /\ Advanced /\ pc.cell = 17) =>
                Grown(results[MeshKeys[pc.o]], results'[MeshKeys[pc.o]], 1)
          /\ (InnerStep /\ Advanced /\ pc.cell = 19) =>
                Grown(basis_results[BasisKeys[pc.o]],
                      basis_results'[BasisKeys[pc.o]], 1)]_vars

\* The basis sweep holds two entries for its second basis.
C6_Witness ==
    /\ pc.cell = 19 /\ pc.o = 2
    /\ Len(basis_results[BasisKeys[1]]) >= 2
    /\ Len(basis_results[BasisKeys[2]]) >= 2

\* The sweep of cell c has begun: `before` is what it found.
Started(c) == pc.cell = c /\ (pc.st \in {"run", "ok"} \/ pc.i >= 1)

\* The name n, bound when the sweep began, holds what it held then.
Kept(n) ==
    n \in before.names =>
        CASE n = "cell" -> cell = before.cell
          [] n = "kpts" -> kpts = before.kpts
          [] n = "num_kpts" -> num_kpts = before.num_kpts
          [] n = "mf" -> mf = before.mf
          [] n = "num_spatial_orbs" -> num_spatial_orbs = before.num_spatial_orbs
          [] n = "thc_ranks" -> thc_ranks = before.thc_ranks
          [] n = "emp2_exact" -> emp2_exact = before.emp2_exact
          [] n = "eri_exact" -> eri_exact = before.eri_exact

\* C7 as stated: after a sweep the configuration and the values derived from
\* it that were bound before the sweep (cell, kpts, num_kpts, mf,
\* num_spatial_orbs, thc_ranks, emp2_exact, eri_exact) are what they were
\* when the sweep began.
C7_SweepLeavesGlobals ==
    (pc.cell \in SweepCells /\ pc.st = "ok") => \A n \in GlobalNames : Kept(n)

\* C7: what a sweep leaves as it found it, of the names bound before it:
\* every sweep the values of kpts, num_kpts and thc_ranks; the rank sweep of
\* cell 8 also cell, mf and num_spatial_orbs; the mesh sweep of cell 17 also
\* num_spatial_orbs and eri_exact; the basis sweep of cell 19 also eri_exact.
C7_WhatSweepsKeep ==
    /\ \A c \in SweepCells :
          Started(c) => \A n \in {"kpts", "num_kpts", "thc_ranks"} : Kept(n)
    /\ Started(8) => \A n \in {"cell", "mf", "num_spatial_orbs"} : Kept(n)
    /\ Started(17) => \A n \in {"num_spatial_orbs", "eri_exact"} : Kept(n)
    /\ Started(19) => Kept("eri_exact")

\* The mesh sweep has finished on a mean field other than the one bound
\* when it began, with the k-points and the orbital count it found.
C7_Witness ==
    /\ pc.cell = 17 /\ pc.st = "ok"
    /\ {"mf", "kpts", "num_spatial_orbs", "thc_ranks"} \subseteq before.names
    /\ mf # before.mf
    /\ kpts = before.kpts /\ num_spatial_orbs = before.num_spatial_orbs

\* C8: cell 6 run on the factors cell 4 made for the mean field in use, with
\* num_thc the product of cell.mesh, finds eri_thc and eri_exact equal: its
\* assertion holds.
C8_FullRankAssertion ==
    (/\ pc.cell = 6 /\ pc.st \in {"ok", "AssertionError"}
     /\ kpt_thc.cell = 4 /\ kpt_thc.mf = Cfg(mf)) => pc.st = "ok"

\* Cell 6 passed its assertion on full-grid factors of cell 4.
C8_Witness ==
    /\ pc.cell = 6 /\ pc.st = "ok"
    /\ kpt_thc.cell = 4 /\ kpt_thc.mf = Cfg(mf)
    /\ kpt_thc.num_thc = ProdMesh(cell)

\* C9 as stated: the factors a sweep step got from solve_kmeans_kpisdf were
\* asked for with num_thc equal to cthc times the number of spatial orbitals
\* of the mean field passed in the same call.
C9_NumThcMatchesOrbitals ==
    kpt_thc.cell \in SweepCells =>
        kpt_thc.num_thc = NumThc(kpt_thc.cthc, NumOrbs(kpt_thc.mf.basis))

\* C10: every entry of results[mesh] was computed from the reference energy
\* and the mean field of that mesh, every entry of basis_results[basis]
\* from those of that basis, and when the outer loop has ended every key
\* holds as many entries as thc_ranks.
C10_EntriesOfOwnConfiguration ==
    /\ \A m \in DOMAIN results : \A k \in 1..Len(results[m]) :
          /\ results[m][k].ref = Cell("gth-szv", m)
          /\ results[m][k].mf = Cell("gth-szv", m)
    /\ \A b \in DOMAIN basis_results : \A k \in 1..Len(basis_results[b]) :
          /\ basis_results[b][k].ref = Cell(b, BasisMesh)
          /\ basis_results[b][k].mf = Cell(b, BasisMesh)
    /\ (pc.cell = 17 /\ pc.st = "ok") =>
          \A m \in Range(MeshKeys) : Len(results[m]) = Len(thc_ranks)
    /\ (pc.cell = 19 /\ pc.st = "ok") =>
          \A b \in Range(BasisKeys) : Len(basis_results[b]) = Len(thc_ranks)

\* The basis sweep has ended with every basis filled.
C10_Witness ==
    /\ pc.cell = 19 /\ pc.st = "ok" /\ pc.o = NumBases
    /\ NumBases >= 2 /\ Len(thc_ranks) >= 2
    /\ \A b \in Range(BasisKeys) : Len(basis_results[b]) = Len(thc_ranks)

\* The line reports a rank parameter.
IsReport(l) == l.kind = "report"

\* The steps of the lambda sweep that have completed.
Completed22 == IF pc.st = "ok" THEN Len(thc_ranks) ELSE pc.i - 1

\* The line at position j of the output is the flagged line of the report
\* line before it.
FlaggedAt(j) ==
    /\ j <= Len(stdout22) /\ stdout22[j].kind = "flagged"
    /\ stdout22[j].cthc = stdout22[j - 1].cthc
    /\ stdout22[j].err = stdout22[j - 1].err
    /\ stdout22[j].lam = stdout22[j - 1].lam

\* C11: the lambda sweep of cell 22 has printed, after the line of the
\* reference energy, exactly one report line for each rank parameter whose
\* step has completed, in the order of thc_ranks; every reported error is
\* non-negative; a report line is followed at once by a flagged line with
\* the same error and lambda if and only if its error is below the
\* threshold of 1e-4, and a flagged line occurs nowhere else.
C11_ReportLines ==
    Started(22) =>
        /\ Len(stdout22) >= 1 /\ stdout22[1].kind = "reference"
        /\ RanksOf(SelectSeq(stdout22, IsReport)) = SubSeq(thc_ranks, 1, Completed22)
        /\ \A j \in 2..Len(stdout22) :
              /\ stdout22[j].kind \in {"report", "flagged"}
              /\ stdout22[j].err >= 0
              /\ stdout22[j].kind = "report" =>
                    (stdout22[j].err < ErrorThreshold <=> FlaggedAt(j + 1))
              /\ stdout22[j].kind = "flagged" =>
                    (stdout22[j - 1].kind = "report" /\ FlaggedAt(j))

\* The lambda sweep has finished with a rank parameter flagged and a rank
\* parameter whose error is exactly the threshold, which is not flagged.
C11_Witness ==
    /\ pc.cell = 22 /\ pc.st = "ok" /\ Len(thc_ranks) >= 2
    /\ \E j \in 2..Len(stdout22) : stdout22[j].kind = "flagged"
    /\ \E j \in 2..Len(stdout22) :
          /\ stdout22[j].kind = "report" /\ stdout22[j].err = ErrorThreshold
          /\ ~FlaggedAt(j + 1)
====
